---- MODULE Spec2Model ----
(***************************************************************************)
(* A model of argonic's JSON-RPC 2.0 message codec: the ErrorCode          *)
(* conversions, the hand-written serde visitors of Notification, Request,  *)
(* Response and ResponseError, and the untagged Message decoder.           *)
(*                                                                         *)
(* A JSON document is a tagged record.  An object is the SEQUENCE of its   *)
(* key/value pairs, in the order a MapAccess hands them to a visitor;      *)
(* a JSON text may repeat a key, a serde_json::Value may not.              *)
(***************************************************************************)
EXTENDS Integers, Sequences, FiniteSets, TLC

VARIABLES input, wire, out, tried, pc

vars == <<input, wire, out, tried, pc>>

(***************************************************************************)
(* JSON documents                                                          *)
(***************************************************************************)
JNull == [t |-> "null"]
JBool(b) == [t |-> "bool", v |-> b]
JInt(n) == [t |-> "int", v |-> n]
\* a floating point number, written by its tenths: JFloat(425) is 42.5
JFloat(n) == [t |-> "float", v |-> n]
JStr(s) == [t |-> "str", v |-> s]
JArr(s) == [t |-> "arr", v |-> s]
JObj(pairs) == [t |-> "obj", v |-> pairs]
KV(key, value) == [k |-> key, v |-> value]

\* Result<T, E>
Ok(x) == [ok |-> TRUE, val |-> x]
Err(kind, arg) == [ok |-> FALSE, kind |-> kind, arg |-> arg]

\* Option<T>
None == [some |-> FALSE]
Some(x) == [some |-> TRUE, val |-> x]

\* the value no operation has produced yet
Nil == [t |-> "nil"]

(***************************************************************************)
(* ErrorCode and its conversions (response.rs)                             *)
(***************************************************************************)
ParseErrorCode == -32700
InvalidRequestCode == -32600
MethodNotFoundCode == -32601
InvalidParamsCode == -32602
InternalErrorCode == -32603
\* the two literals of the server-error guard
ServerErrorUpper == -32000
ServerErrorLower == -32099

ParseError == [tag |-> "ParseError"]
InvalidRequest == [tag |-> "InvalidRequest"]
MethodNotFound == [tag |-> "MethodNotFound"]
InvalidParams == [tag |-> "InvalidParams"]
InternalError == [tag |-> "InternalError"]
ServerError(n) == [tag |-> "ServerError", code |-> n]
ApplicationError(n) == [tag |-> "ApplicationError", code |-> n]

NamedCodes == {ParseError, InvalidRequest, MethodNotFound, InvalidParams, InternalError}

\* impl From<ErrorCode> for i64
I64FromErrorCode(code) ==
  CASE code.tag = "ParseError" -> ParseErrorCode
    [] code.tag = "InvalidRequest" -> InvalidRequestCode
    [] code.tag = "MethodNotFound" -> MethodNotFoundCode
    [] code.tag = "InvalidParams" -> InvalidParamsCode
    [] code.tag = "InternalError" -> InternalErrorCode
    [] code.tag = "ServerError" -> code.code
    [] code.tag = "ApplicationError" -> code.code

\* the guard of the ServerError arm: `code < -32000 && code > -32099`
ServerErrorGuard(code) == code < ServerErrorUpper /\ code > ServerErrorLower

\* ErrorCodeFromI64 with the values of two arms exchanged
ErrorCodeFromI64_SwappedArms(code) ==
  CASE code = ParseErrorCode -> ParseError
    [] code = InvalidRequestCode -> InvalidRequest
    [] code = MethodNotFoundCode -> MethodNotFound
    [] code = InvalidParamsCode -> InternalError
    [] code = InternalErrorCode -> InvalidParams
    [] OTHER -> IF ServerErrorGuard(code) THEN ServerError(code)
                ELSE ApplicationError(code)

\* impl From<i64> for ErrorCode: the arms of the match, first match wins
ErrorCodeFromI64(code) ==
  CASE code = ParseErrorCode -> ParseError
    [] code = InvalidRequestCode -> InvalidRequest
    [] code = MethodNotFoundCode -> MethodNotFound
    [] code = InvalidParamsCode -> InvalidParams
    [] code = InternalErrorCode -> InternalError
    [] OTHER -> IF ServerErrorGuard(code) THEN ServerError(code)
                ELSE ApplicationError(code)

(***************************************************************************)
(* The conversions applied to integers and to codes                        *)
(***************************************************************************)
\* how far below and above the server-error band the integers are drawn
CodeMargin == 3

NamedInts == {ParseErrorCode, InvalidRequestCode, MethodNotFoundCode,
              InvalidParamsCode, InternalErrorCode}

\* the server-error band of the JSON-RPC 2.0 table, both ends included
InServerBand(n) == n >= ServerErrorLower /\ n <= ServerErrorUpper

CodeInts ==
  ((ServerErrorLower - CodeMargin) .. (ServerErrorUpper + CodeMargin))
    \cup NamedInts
    \cup {n + d : n \in NamedInts, d \in {-1, 1}}
    \cup ((0 - CodeMargin) .. CodeMargin)

\* the codes of the table: a named code, ServerError(n) with n in the band,
\* ApplicationError(n) with any other n
TableCodes ==
  NamedCodes
    \cup {ServerError(n) : n \in {m \in CodeInts : InServerBand(m)}}
    \cup {ApplicationError(n) : n \in {m \in CodeInts : ~InServerBand(m) /\ m \notin NamedInts}}

I64In(n) == [kind |-> "i64", n |-> n]
CodeIn(c) == [kind |-> "ErrorCode", c |-> c]

InitCode ==
  /\ input \in {I64In(n) : n \in CodeInts} \cup {CodeIn(c) : c \in TableCodes}
  /\ wire = Nil
  /\ out = Nil
  /\ tried = <<>>
  /\ pc = "start"

\* ErrorCode::from(n)
FromInteger ==
  /\ pc = "start"
  /\ input.kind = "i64"
  /\ wire' = CodeIn(ErrorCodeFromI64(input.n))
  /\ pc' = "from"
  /\ UNCHANGED <<input, out, tried>>

\* i64::from(c)
ToInteger ==
  /\ pc = "start"
  /\ input.kind = "ErrorCode"
  /\ wire' = I64In(I64FromErrorCode(input.c))
  /\ pc' = "to"
  /\ UNCHANGED <<input, out, tried>>

\* i64::from(ErrorCode::from(n))
ToIntegerBack ==
  /\ pc = "from"
  /\ out' = I64In(I64FromErrorCode(wire.c))
  /\ pc' = "from_to"
  /\ UNCHANGED <<input, wire, tried>>

\* ErrorCode::from(i64::from(c))
FromIntegerBack ==
  /\ pc = "to"
  /\ out' = CodeIn(ErrorCodeFromI64(wire.n))
  /\ pc' = "to_from"
  /\ UNCHANGED <<input, wire, tried>>

NextCode == FromInteger \/ ToInteger \/ ToIntegerBack \/ FromIntegerBack

SpecCode == InitCode /\ [][NextCode]_vars


(***************************************************************************)
(* Leaf decoders                                                           *)
(***************************************************************************)
\* String::deserialize: a visitor that accepts a JSON string only
StringDeserialize(v) ==
  IF v.t = "str" THEN Ok(v.v) ELSE Err("invalid_type", v.t)

\* JsonRpcVersionDeserialize without the comparison of visit_str
JsonRpcVersionDeserialize_AnyString(v) ==
  IF v.t = "str" THEN Ok("JsonRpcVersion") ELSE Err("invalid_type", v.t)

\* JsonRpcVersion::deserialize: deserialize_str, then VersionVisitor::visit_str
JsonRpcVersionDeserialize(v) ==
  IF v.t = "str"
    THEN IF v.v = "2.0" THEN Ok("JsonRpcVersion")
         ELSE Err("invalid JSON-RPC version", v.v)
    ELSE Err("invalid_type", v.t)

\* RequestId
IdNumber(json) == [tag |-> "Number", val |-> json]
\* a String id holds its text as the JSON string it is written as
IdString(s) == [tag |-> "String", val |-> JStr(s)]
IdNull == [tag |-> "Null"]

\* RequestIdDeserialize with a visit_bool that takes a boolean for no id
RequestIdDeserialize_AcceptsBool(v) ==
  CASE v.t = "str" -> Ok(IdString(v.v))
    [] v.t = "int" -> Ok(IdNumber(v))
    [] v.t = "float" -> Ok(IdNumber(v))
    [] v.t = "null" -> Ok(IdNull)
    [] v.t = "bool" -> Ok(IdNull)
    [] OTHER -> Err("invalid_type", v.t)

\* RequestIdDeserialize with a visit_str that reads a string of digits as a number
RequestIdDeserialize_CoercesDigits(v) ==
  CASE v.t = "str" -> IF v.v = "1" THEN Ok(IdNumber(JInt(1))) ELSE Ok(IdString(v.v))
    [] v.t = "int" -> Ok(IdNumber(v))
    [] v.t = "float" -> Ok(IdNumber(v))
    [] v.t = "null" -> Ok(IdNull)
    [] OTHER -> Err("invalid_type", v.t)

\* RequestId::deserialize: deserialize_any over RequestIdVisitor, which has
\* visit_str, visit_u64, visit_i64, visit_f64, visit_unit and visit_none
RequestIdDeserialize(v) ==
  CASE v.t = "str" -> Ok(IdString(v.v))
    [] v.t = "int" -> Ok(IdNumber(v))
    [] v.t = "float" -> Ok(IdNumber(v))
    [] v.t = "null" -> Ok(IdNull)
    [] OTHER -> Err("invalid_type", v.t)

\* the keys of the model in the order a BTreeMap<String, Value> iterates them
KeyOrder == <<"code", "data", "error", "extra", "id", "jsonrpc", "message",
              "method", "params", "result">>

HasKey(pairs, key) == \E i \in 1..Len(pairs) : pairs[i].k = key
LastIndexOf(pairs, key) ==
  CHOOSE i \in 1..Len(pairs) :
    /\ pairs[i].k = key
    /\ \A j \in (i+1)..Len(pairs) : pairs[j].k # key
KeysOf(pairs) == {pairs[i].k : i \in 1..Len(pairs)}

RECURSIVE ValueDeserialize(_)
\* serde_json::Value::deserialize: an object becomes a Map, in which a later
\* occurrence of a key replaces the earlier one and keys iterate in order
ValueDeserialize(v) ==
  CASE v.t = "obj" ->
         LET present == SelectSeq(KeyOrder, LAMBDA key : HasKey(v.v, key))
         IN JObj([j \in 1..Len(present) |->
                    KV(present[j],
                       ValueDeserialize(v.v[LastIndexOf(v.v, present[j])].v))])
    [] v.t = "arr" -> JArr([j \in 1..Len(v.v) |-> ValueDeserialize(v.v[j])])
    [] OTHER -> v

(***************************************************************************)
(* Notification (notification.rs)                                          *)
(***************************************************************************)
\* NotificationVisitKey with an "id" arm that skips the key
NotificationVisitKey_IgnoresId(st, key, value) ==
  CASE key = "jsonrpc" ->
         IF st.jsonrpc.some THEN Err("duplicate_field", "jsonrpc")
         ELSE LET r == JsonRpcVersionDeserialize(value)
              IN IF r.ok THEN Ok([st EXCEPT !.jsonrpc = Some(r.val)]) ELSE r
    [] key = "method" ->
         IF st.method.some THEN Err("duplicate_field", "method")
         ELSE LET r == StringDeserialize(value)
              IN IF r.ok THEN Ok([st EXCEPT !.method = Some(r.val)]) ELSE r
    [] key = "params" ->
         IF st.params.some THEN Err("duplicate_field", "params")
         ELSE Ok([st EXCEPT !.params = Some(Some(ValueDeserialize(value)))])
    [] key = "id" -> Ok(st)
    [] OTHER -> Err("unknown_field", key)

\* the body of the while-let loop of NotificationVisitor::visit_map for one
\* key: the accumulators with the key's value stored, or the error returned
NotificationVisitKey(st, key, value) ==
  CASE key = "jsonrpc" ->
         IF st.jsonrpc.some THEN Err("duplicate_field", "jsonrpc")
         ELSE LET r == JsonRpcVersionDeserialize(value)
              IN IF r.ok THEN Ok([st EXCEPT !.jsonrpc = Some(r.val)]) ELSE r
    [] key = "method" ->
         IF st.method.some THEN Err("duplicate_field", "method")
         ELSE LET r == StringDeserialize(value)
              IN IF r.ok THEN Ok([st EXCEPT !.method = Some(r.val)]) ELSE r
    [] key = "params" ->
         IF st.params.some THEN Err("duplicate_field", "params")
         ELSE Ok([st EXCEPT !.params = Some(Some(ValueDeserialize(value)))])
    [] key = "id" -> Err("notifications must not include an id", "id")
    [] OTHER -> Err("unknown_field", key)

\* NotificationFinish treating a null params as an absent one
NotificationFinish_DropsNullParams(st) ==
  IF ~st.jsonrpc.some THEN Err("missing_field", "jsonrpc")
  ELSE IF ~st.method.some THEN Err("missing_field", "method")
  ELSE Ok([method |-> st.method.val,
           params |-> IF st.params.some /\ st.params.val.val.t # "null"
                        THEN st.params.val ELSE None])

\* the end of NotificationVisitor::visit_map, after the last key
NotificationFinish(st) ==
  IF ~st.jsonrpc.some THEN Err("missing_field", "jsonrpc")
  ELSE IF ~st.method.some THEN Err("missing_field", "method")
  ELSE Ok([method |-> st.method.val,
           \* params.unwrap_or(None)
           params |-> IF st.params.some THEN st.params.val ELSE None])

RECURSIVE NotificationVisitMap(_, _, _)
\* NotificationVisitor::visit_map from pair i on: the first error ends it
NotificationVisitMap(pairs, i, st) ==
  IF i > Len(pairs) THEN NotificationFinish(st)
  ELSE LET r == NotificationVisitKey(st, pairs[i].k, pairs[i].v)
       IN IF r.ok THEN NotificationVisitMap(pairs, i + 1, r.val) ELSE r

\* Notification::deserialize: deserialize_map hands an object to visit_map
\* and refuses every other JSON shape
NotificationDeserialize(v) ==
  IF v.t = "obj"
    THEN NotificationVisitMap(v.v, 1, [jsonrpc |-> None, method |-> None, params |-> None])
    ELSE Err("invalid_type", v.t)

(***************************************************************************)
(* Request (request.rs)                                                    *)
(***************************************************************************)
\* the body of the while-let loop of RequestVisitor::visit_map for one key
RequestVisitKey(st, key, value) ==
  CASE key = "jsonrpc" ->
         IF st.jsonrpc.some THEN Err("duplicate_field", "jsonrpc")
         ELSE LET r == JsonRpcVersionDeserialize(value)
              IN IF r.ok THEN Ok([st EXCEPT !.jsonrpc = Some(r.val)]) ELSE r
    [] key = "method" ->
         IF st.method.some THEN Err("duplicate_field", "method")
         ELSE LET r == StringDeserialize(value)
              IN IF r.ok THEN Ok([st EXCEPT !.method = Some(r.val)]) ELSE r
    [] key = "params" ->
         IF st.params.some THEN Err("duplicate_field", "params")
         ELSE Ok([st EXCEPT !.params = Some(Some(ValueDeserialize(value)))])
    [] key = "id" ->
         IF st.id.some THEN Err("duplicate_field", "id")
         ELSE LET r == RequestIdDeserialize(value)
              IN IF r.ok THEN Ok([st EXCEPT !.id = Some(r.val)]) ELSE r
    [] OTHER -> Err("unknown_field", key)

\* RequestFinish with the id defaulted instead of required
RequestFinish_IdOptional(st) ==
  IF ~st.jsonrpc.some THEN Err("missing_field", "jsonrpc")
  ELSE IF ~st.method.some THEN Err("missing_field", "method")
  ELSE Ok([method |-> st.method.val,
           params |-> IF st.params.some THEN st.params.val ELSE None,
           id |-> IF st.id.some THEN st.id.val ELSE IdNull])

\* the end of RequestVisitor::visit_map
RequestFinish(st) ==
  IF ~st.jsonrpc.some THEN Err("missing_field", "jsonrpc")
  ELSE IF ~st.method.some THEN Err("missing_field", "method")
  ELSE IF ~st.id.some THEN Err("missing_field", "id")
  ELSE Ok([method |-> st.method.val,
           params |-> IF st.params.some THEN st.params.val ELSE None,
           id |-> st.id.val])

RECURSIVE RequestVisitMap(_, _, _)
\* RequestVisitor::visit_map from pair i on
RequestVisitMap(pairs, i, st) ==
  IF i > Len(pairs) THEN RequestFinish(st)
  ELSE LET r == RequestVisitKey(st, pairs[i].k, pairs[i].v)
       IN IF r.ok THEN RequestVisitMap(pairs, i + 1, r.val) ELSE r

\* Request::deserialize
RequestDeserialize(v) ==
  IF v.t = "obj"
    THEN RequestVisitMap(v.v, 1,
           [jsonrpc |-> None, method |-> None, params |-> None, id |-> None])
    ELSE Err("invalid_type", v.t)

(***************************************************************************)
(* ResponseError and Response (response.rs)                                *)
(***************************************************************************)
\* ErrorCode::deserialize: i64::deserialize followed by ErrorCode::from
ErrorCodeDeserialize(v) ==
  IF v.t = "int" THEN Ok(ErrorCodeFromI64(v.v)) ELSE Err("invalid_type", v.t)

\* the body of the while-let loop of ResponseErrorVisitor::visit_map
ResponseErrorVisitKey(st, key, value) ==
  CASE key = "code" ->
         IF st.code.some THEN Err("duplicate_field", "code")
         ELSE LET r == ErrorCodeDeserialize(value)
              IN IF r.ok THEN Ok([st EXCEPT !.code = Some(r.val)]) ELSE r
    [] key = "message" ->
         IF st.message.some THEN Err("duplicate_field", "message")
         ELSE LET r == StringDeserialize(value)
              IN IF r.ok THEN Ok([st EXCEPT !.message = Some(r.val)]) ELSE r
    [] key = "data" ->
         IF st.data.some THEN Err("duplicate_field", "data")
         ELSE Ok([st EXCEPT !.data = Some(ValueDeserialize(value))])
    [] OTHER -> Err("unknown_field", key)

\* ResponseErrorFinish keeping a null data as Some(null)
ResponseErrorFinish_KeepsNull(st) ==
  IF ~st.code.some THEN Err("missing_field", "code")
  ELSE IF ~st.message.some THEN Err("missing_field", "message")
  ELSE Ok([code |-> st.code.val, message |-> st.message.val, data |-> st.data])

\* the end of ResponseErrorVisitor::visit_map
ResponseErrorFinish(st) ==
  IF ~st.code.some THEN Err("missing_field", "code")
  ELSE IF ~st.message.some THEN Err("missing_field", "message")
  ELSE Ok([code |-> st.code.val,
           message |-> st.message.val,
           \* data.and_then(|data| if data.is_null() { None } else { Some(data) })
           data |-> IF st.data.some /\ st.data.val.t # "null"
                      THEN Some(st.data.val) ELSE None])

RECURSIVE ResponseErrorVisitMap(_, _, _)
\* ResponseErrorVisitor::visit_map from pair i on
ResponseErrorVisitMap(pairs, i, st) ==
  IF i > Len(pairs) THEN ResponseErrorFinish(st)
  ELSE LET r == ResponseErrorVisitKey(st, pairs[i].k, pairs[i].v)
       IN IF r.ok THEN ResponseErrorVisitMap(pairs, i + 1, r.val) ELSE r

\* ResponseError::deserialize
ResponseErrorDeserialize(v) ==
  IF v.t = "obj"
    THEN ResponseErrorVisitMap(v.v, 1, [code |-> None, message |-> None, data |-> None])
    ELSE Err("invalid_type", v.t)

\* ResponseResult
ResultOk(value) == [tag |-> "Ok", val |-> value]
ResultErr(e) == [tag |-> "Err", val |-> e]

\* ResponseVisitKey whose "error" arm does not look at result
ResponseVisitKey_ErrorAfterResult(st, key, value) ==
  CASE key = "jsonrpc" ->
         IF st.jsonrpc.some THEN Err("duplicate_field", "jsonrpc")
         ELSE LET r == JsonRpcVersionDeserialize(value)
              IN IF r.ok THEN Ok([st EXCEPT !.jsonrpc = Some(r.val)]) ELSE r
    [] key = "id" ->
         IF st.id.some THEN Err("duplicate_field", "id")
         ELSE LET r == RequestIdDeserialize(value)
              IN IF r.ok THEN Ok([st EXCEPT !.id = Some(r.val)]) ELSE r
    [] key = "result" ->
         IF st.result.some THEN Err("duplicate_field", "result")
         ELSE IF st.error.some
           THEN Err("cannot have both result and error fields", "")
         ELSE Ok([st EXCEPT !.result = Some(ResultOk(ValueDeserialize(value)))])
    [] key = "error" ->
         IF st.error.some THEN Err("duplicate_field", "error")
         ELSE LET r == ResponseErrorDeserialize(value)
              IN IF r.ok THEN Ok([st EXCEPT !.error = Some(ResultErr(r.val))]) ELSE r
    [] OTHER -> Err("unknown_field", key)

\* the body of the while-let loop of ResponseVisitor::visit_map
ResponseVisitKey(st, key, value) ==
  CASE key = "jsonrpc" ->
         IF st.jsonrpc.some THEN Err("duplicate_field", "jsonrpc")
         ELSE LET r == JsonRpcVersionDeserialize(value)
              IN IF r.ok THEN Ok([st EXCEPT !.jsonrpc = Some(r.val)]) ELSE r
    [] key = "id" ->
         IF st.id.some THEN Err("duplicate_field", "id")
         ELSE LET r == RequestIdDeserialize(value)
              IN IF r.ok THEN Ok([st EXCEPT !.id = Some(r.val)]) ELSE r
    [] key = "result" ->
         IF st.result.some THEN Err("duplicate_field", "result")
         ELSE IF st.error.some
           THEN Err("cannot have both result and error fields", "")
         ELSE Ok([st EXCEPT !.result = Some(ResultOk(ValueDeserialize(value)))])
    [] key = "error" ->
         IF st.error.some THEN Err("duplicate_field", "error")
         ELSE IF st.result.some
           THEN Err("cannot have both result and error fields", "")
         ELSE LET r == ResponseErrorDeserialize(value)
              IN IF r.ok THEN Ok([st EXCEPT !.error = Some(ResultErr(r.val))]) ELSE r
    [] OTHER -> Err("unknown_field", key)

\* ResponseFinish looking for the id before the jsonrpc
ResponseFinish_IdFirst(st) ==
  IF ~st.id.some THEN Err("missing_field", "id")
  ELSE IF ~st.jsonrpc.some THEN Err("missing_field", "jsonrpc")
  ELSE IF st.result.some THEN Ok([id |-> st.id.val, result |-> st.result.val])
  ELSE IF st.error.some THEN Ok([id |-> st.id.val, result |-> st.error.val])
  ELSE Err("missing both result and error fields", "")

\* the end of ResponseVisitor::visit_map
ResponseFinish(st) ==
  IF ~st.jsonrpc.some THEN Err("missing_field", "jsonrpc")
  ELSE IF ~st.id.some THEN Err("missing_field", "id")
  \* result.or(error).ok_or_else(..)
  ELSE IF st.result.some THEN Ok([id |-> st.id.val, result |-> st.result.val])
  ELSE IF st.error.some THEN Ok([id |-> st.id.val, result |-> st.error.val])
  ELSE Err("missing both result and error fields", "")

RECURSIVE ResponseVisitMap(_, _, _)
\* ResponseVisitor::visit_map from pair i on
ResponseVisitMap(pairs, i, st) ==
  IF i > Len(pairs) THEN ResponseFinish(st)
  ELSE LET r == ResponseVisitKey(st, pairs[i].k, pairs[i].v)
       IN IF r.ok THEN ResponseVisitMap(pairs, i + 1, r.val) ELSE r

\* Response::deserialize
ResponseDeserialize(v) ==
  IF v.t = "obj"
    THEN ResponseVisitMap(v.v, 1,
           [jsonrpc |-> None, id |-> None, result |-> None, error |-> None])
    ELSE Err("invalid_type", v.t)

(***************************************************************************)
(* Message (transport/mod.rs)                                              *)
(***************************************************************************)
\* Vec::<Request>::deserialize: an array whose elements all decode as
\* Request, the first failing element's error otherwise
\* VecRequestDeserialize refusing an array without elements
VecRequestDeserialize_NonEmpty(v) ==
  IF v.t = "arr" /\ Len(v.v) > 0
    THEN LET rs == [j \in 1..Len(v.v) |-> RequestDeserialize(v.v[j])]
             bad == {j \in 1..Len(rs) : ~rs[j].ok}
         IN IF bad = {} THEN Ok([j \in 1..Len(rs) |-> rs[j].val])
            ELSE rs[CHOOSE j \in bad : \A k \in bad : j <= k]
    ELSE Err("invalid_type", v.t)

\* VecRequestDeserialize collecting the requests last element first
VecRequestDeserialize_Reversed(v) ==
  IF v.t = "arr"
    THEN LET rs == [j \in 1..Len(v.v) |-> RequestDeserialize(v.v[j])]
             bad == {j \in 1..Len(rs) : ~rs[j].ok}
         IN IF bad = {} THEN Ok([j \in 1..Len(rs) |-> rs[Len(rs) + 1 - j].val])
            ELSE rs[CHOOSE j \in bad : \A k \in bad : j <= k]
    ELSE Err("invalid_type", v.t)

VecRequestDeserialize(v) ==
  IF v.t = "arr"
    THEN LET rs == [j \in 1..Len(v.v) |-> RequestDeserialize(v.v[j])]
             bad == {j \in 1..Len(rs) : ~rs[j].ok}
         IN IF bad = {} THEN Ok([j \in 1..Len(rs) |-> rs[j].val])
            ELSE rs[CHOOSE j \in bad : \A k \in bad : j <= k]
    ELSE Err("invalid_type", v.t)

MessageOf(variant, x) == [variant |-> variant, val |-> x]

\* MessageDeserialize with the Request attempt moved before Notification
MessageDeserialize_RequestFirst(d) ==
  LET value == ValueDeserialize(d)
      n == NotificationDeserialize(value)
      rq == RequestDeserialize(value)
      rs == ResponseDeserialize(value)
      b == VecRequestDeserialize(value)
  IN IF rq.ok
       THEN [value |-> value, tried |-> <<"Request">>,
             result |-> Ok(MessageOf("Request", rq.val))]
     ELSE IF n.ok
       THEN [value |-> value, tried |-> <<"Request", "Notification">>,
             result |-> Ok(MessageOf("Notification", n.val))]
     ELSE IF rs.ok
       THEN [value |-> value, tried |-> <<"Request", "Notification", "Response">>,
             result |-> Ok(MessageOf("Response", rs.val))]
     ELSE IF b.ok
       THEN [value |-> value,
             tried |-> <<"Request", "Notification", "Response", "BatchRequest">>,
             result |-> Ok(MessageOf("BatchRequest", b.val))]
     ELSE [value |-> value,
           tried |-> <<"Request", "Notification", "Response", "BatchRequest">>,
           result |-> Err("data did not match any variant of Message", "")]

\* Message::deserialize: the payload is parsed into a serde_json::Value and
\* the four decoders are tried on it in the order of the source; `tried`
\* lists the decoders that were called
MessageDeserialize(d) ==
  LET value == ValueDeserialize(d)
      n == NotificationDeserialize(value)
      rq == RequestDeserialize(value)
      rs == ResponseDeserialize(value)
      b == VecRequestDeserialize(value)
  IN IF n.ok
       THEN [value |-> value, tried |-> <<"Notification">>,
             result |-> Ok(MessageOf("Notification", n.val))]
     ELSE IF rq.ok
       THEN [value |-> value, tried |-> <<"Notification", "Request">>,
             result |-> Ok(MessageOf("Request", rq.val))]
     ELSE IF rs.ok
       THEN [value |-> value, tried |-> <<"Notification", "Request", "Response">>,
             result |-> Ok(MessageOf("Response", rs.val))]
     ELSE IF b.ok
       THEN [value |-> value,
             tried |-> <<"Notification", "Request", "Response", "BatchRequest">>,
             result |-> Ok(MessageOf("BatchRequest", b.val))]
     ELSE [value |-> value,
           tried |-> <<"Notification", "Request", "Response", "BatchRequest">>,
           result |-> Err("data did not match any variant of Message", "")]

(***************************************************************************)
(* Encoders                                                                *)
(***************************************************************************)
\* RequestId::serialize
RequestIdSerialize(id) ==
  CASE id.tag = "Number" -> id.val
    [] id.tag = "String" -> JStr(id.val.v)
    [] id.tag = "Null" -> JNull

\* NotificationSerialize writing a null id after the params
NotificationSerialize_WithNullId(n) ==
  JObj(<<KV("jsonrpc", JStr("2.0")), KV("method", JStr(n.method))>>
       \o (IF n.params.some THEN <<KV("params", n.params.val)>> ELSE <<>>)
       \o <<KV("id", JNull)>>)

\* Notification::serialize
NotificationSerialize(n) ==
  JObj(<<KV("jsonrpc", JStr("2.0")), KV("method", JStr(n.method))>>
       \o (IF n.params.some THEN <<KV("params", n.params.val)>> ELSE <<>>))

\* RequestSerialize writing an absent params as null
RequestSerialize_NullParams(r) ==
  JObj(<<KV("jsonrpc", JStr("2.0")), KV("method", JStr(r.method)),
         KV("params", IF r.params.some THEN r.params.val ELSE JNull),
         KV("id", RequestIdSerialize(r.id))>>)

\* Request::serialize
RequestSerialize(r) ==
  JObj(<<KV("jsonrpc", JStr("2.0")), KV("method", JStr(r.method))>>
       \o (IF r.params.some THEN <<KV("params", r.params.val)>> ELSE <<>>)
       \o <<KV("id", RequestIdSerialize(r.id))>>)

\* ErrorCode::serialize
ErrorCodeSerialize(c) == JInt(I64FromErrorCode(c))

\* ResponseErrorSerialize leaving an absent data out
ResponseErrorSerialize_SkipsAbsentData(e) ==
  JObj(<<KV("code", ErrorCodeSerialize(e.code)), KV("message", JStr(e.message))>>
       \o (IF e.data.some THEN <<KV("data", e.data.val)>> ELSE <<>>))

\* ResponseError::serialize: the three fields, an absent data as null
ResponseErrorSerialize(e) ==
  JObj(<<KV("code", ErrorCodeSerialize(e.code)),
         KV("message", JStr(e.message)),
         KV("data", IF e.data.some THEN e.data.val ELSE JNull)>>)

\* Response::serialize
ResponseSerialize(r) ==
  JObj(<<KV("jsonrpc", JStr("2.0")), KV("id", RequestIdSerialize(r.id))>>
       \o (IF r.result.tag = "Ok"
             THEN <<KV("result", r.result.val)>>
             ELSE <<KV("error", ResponseErrorSerialize(r.result.val))>>))

\* Message::serialize
MessageSerialize(m) ==
  CASE m.variant = "Request" -> RequestSerialize(m.val)
    [] m.variant = "Response" -> ResponseSerialize(m.val)
    [] m.variant = "Notification" -> NotificationSerialize(m.val)
    [] m.variant = "BatchRequest" ->
         JArr([j \in 1..Len(m.val) |-> RequestSerialize(m.val[j])])

(***************************************************************************)
(* Payloads                                                                *)
(***************************************************************************)
\* the most key/value pairs a payload object holds
MaxKeys == 4
\* the most elements a payload array holds
MaxBatch == 2

\* the JSON objects of at most MaxKeys pairs drawn from `pairs`, in every
\* order and with repeated keys
Objects(pairs) == {JObj(s) : s \in UNION {[1..n -> pairs] : n \in 0..MaxKeys}}

ErrorObject == JObj(<<KV("code", JInt(MethodNotFoundCode)),
                      KV("message", JStr("Method not found")),
                      KV("data", JNull)>>)
ErrorObjectWithData == JObj(<<KV("code", JInt(InvalidParamsCode)),
                              KV("message", JStr("Invalid params")),
                              KV("data", JObj(<<KV("extra", JStr("id"))>>))>>)
\* an error object without its message
ErrorObjectBad == JObj(<<KV("code", JInt(MethodNotFoundCode))>>)

VersionPairs == {KV("jsonrpc", JStr("2.0")), KV("jsonrpc", JStr("1.0")),
                 KV("jsonrpc", JInt(2))}

NotificationPairs ==
  VersionPairs
    \cup {KV("method", JStr("update")), KV("method", JInt(1)),
          KV("params", JArr(<<JInt(1), JInt(2)>>)), KV("params", JNull),
          KV("id", JInt(1)), KV("id", JNull),
          KV("extra", JInt(1))}

RequestPairs ==
  VersionPairs
    \cup {KV("method", JStr("subtract")), KV("method", JInt(1)),
          KV("params", JArr(<<JInt(42), JInt(23)>>)), KV("params", JNull),
          KV("id", JInt(1)), KV("id", JNull), KV("id", JBool(TRUE)),
          KV("result", JInt(19))}

ResponsePairs ==
  VersionPairs
    \cup {KV("id", JInt(1)), KV("id", JNull), KV("id", JBool(TRUE)),
          KV("result", JInt(19)), KV("result", JNull),
          KV("error", ErrorObject), KV("error", ErrorObjectWithData),
          KV("error", ErrorObjectBad),
          KV("method", JStr("subtract"))}

\* the keys of all three schemas together
MessagePairs ==
  VersionPairs
    \cup {KV("method", JStr("subtract")), KV("method", JInt(1)),
          KV("params", JArr(<<JInt(42), JInt(23)>>)),
          KV("id", JInt(1)),
          KV("result", JInt(19)),
          KV("error", ErrorObject),
          KV("extra", JInt(1))}

NonObjects == {JNull, JBool(TRUE), JInt(1), JFloat(425), JStr("2.0"), JArr(<<>>),
               JArr(<<JInt(1)>>)}

RequestObject(id) ==
  JObj(<<KV("jsonrpc", JStr("2.0")), KV("method", JStr("subtract")),
         KV("params", JArr(<<JInt(42), JInt(23)>>)), KV("id", id)>>)

BatchElements ==
  {RequestObject(JInt(1)), RequestObject(JInt(2)),
   JObj(<<KV("jsonrpc", JStr("2.0")), KV("method", JStr("update"))>>),
   JObj(<<KV("jsonrpc", JStr("2.0")), KV("result", JInt(19)), KV("id", JInt(1))>>),
   JInt(1)}

Batches == {JArr(s) : s \in UNION {[1..n -> BatchElements] : n \in 0..MaxBatch}}

(***************************************************************************)
(* The decoders applied to a payload                                       *)
(***************************************************************************)
InitPayload(payloads) ==
  /\ input \in payloads
  /\ wire = Nil
  /\ out = Nil
  /\ tried = <<>>
  /\ pc = "start"

\* serde_json::from_str::<Notification>(input)
DecodeNotification ==
  /\ pc = "start"
  /\ out' = NotificationDeserialize(input)
  /\ pc' = "Notification"
  /\ UNCHANGED <<input, wire, tried>>

\* serde_json::from_str::<Request>(input)
DecodeRequest ==
  /\ pc = "start"
  /\ out' = RequestDeserialize(input)
  /\ pc' = "Request"
  /\ UNCHANGED <<input, wire, tried>>

\* serde_json::from_str::<Response>(input)
DecodeResponse ==
  /\ pc = "start"
  /\ out' = ResponseDeserialize(input)
  /\ pc' = "Response"
  /\ UNCHANGED <<input, wire, tried>>

\* serde_json::from_str::<Message>(input)
DecodeMessage ==
  /\ pc = "start"
  /\ LET r == MessageDeserialize(input)
     IN /\ wire' = r.value
        /\ tried' = r.tried
        /\ out' = r.result
  /\ pc' = "Message"
  /\ UNCHANGED input

InitNotification == InitPayload(Objects(NotificationPairs) \cup NonObjects)
NextNotification == DecodeNotification
SpecNotification == InitNotification /\ [][NextNotification]_vars

InitRequest == InitPayload(Objects(RequestPairs) \cup NonObjects)
NextRequest == DecodeRequest
SpecRequest == InitRequest /\ [][NextRequest]_vars

InitResponse == InitPayload(Objects(ResponsePairs) \cup NonObjects)
NextResponse == DecodeResponse
SpecResponse == InitResponse /\ [][NextResponse]_vars

InitDecode == InitPayload(Objects(MessagePairs) \cup NonObjects \cup Batches)
NextDecode == DecodeNotification \/ DecodeRequest \/ DecodeResponse \/ DecodeMessage
SpecDecode == InitDecode /\ [][NextDecode]_vars

(***************************************************************************)
(* Typed values, encoded and decoded again                                 *)
(***************************************************************************)
Methods == {"subtract", "2.0"}

\* Option<serde_json::Value>
OptionValues ==
  {None, Some(JNull), Some(JInt(19)), Some(JArr(<<JInt(42), JInt(23)>>)),
   Some(JObj(<<KV("extra", JStr("id"))>>))}

RequestIds == {IdNumber(JInt(1)), IdNumber(JFloat(425)), IdString("1"), IdNull}

Notifications == [method : Methods, params : OptionValues]

Requests == [method : Methods, params : OptionValues, id : RequestIds]

ResponseErrors == [code : TableCodes, message : {"Method not found"}, data : OptionValues]

Responses ==
  [id : RequestIds,
   result : {ResultOk(JNull), ResultOk(JInt(19)), ResultOk(JObj(<<>>))}
              \cup {ResultErr(e) : e \in ResponseErrors}]

Typed(kind, x) == [kind |-> kind, val |-> x]

InitRound ==
  /\ input \in {Typed("Notification", n) : n \in Notifications}
                 \cup {Typed("Request", r) : r \in Requests}
                 \cup {Typed("Response", r) : r \in Responses}
  /\ wire = Nil
  /\ out = Nil
  /\ tried = <<>>
  /\ pc = "start"

\* serde_json::to_string(&notification)
SerializeNotification ==
  /\ pc = "start"
  /\ input.kind = "Notification"
  /\ wire' = NotificationSerialize(input.val)
  /\ pc' = "serialized"
  /\ UNCHANGED <<input, out, tried>>

\* serde_json::to_string(&request)
SerializeRequest ==
  /\ pc = "start"
  /\ input.kind = "Request"
  /\ wire' = RequestSerialize(input.val)
  /\ pc' = "serialized"
  /\ UNCHANGED <<input, out, tried>>

\* serde_json::to_string(&response)
SerializeResponse ==
  /\ pc = "start"
  /\ input.kind = "Response"
  /\ wire' = ResponseSerialize(input.val)
  /\ pc' = "serialized"
  /\ UNCHANGED <<input, out, tried>>

\* serde_json::from_str::<Notification>(&wire)
DeserializeNotification ==
  /\ pc = "serialized"
  /\ input.kind = "Notification"
  /\ out' = NotificationDeserialize(wire)
  /\ pc' = "deserialized"
  /\ UNCHANGED <<input, wire, tried>>

\* serde_json::from_str::<Request>(&wire)
DeserializeRequest ==
  /\ pc = "serialized"
  /\ input.kind = "Request"
  /\ out' = RequestDeserialize(wire)
  /\ pc' = "deserialized"
  /\ UNCHANGED <<input, wire, tried>>

\* serde_json::from_str::<Response>(&wire)
DeserializeResponse ==
  /\ pc = "serialized"
  /\ input.kind = "Response"
  /\ out' = ResponseDeserialize(wire)
  /\ pc' = "deserialized"
  /\ UNCHANGED <<input, wire, tried>>

NextRound ==
  \/ SerializeNotification \/ SerializeRequest \/ SerializeResponse
  \/ DeserializeNotification \/ DeserializeRequest \/ DeserializeResponse

SpecRound == InitRound /\ [][NextRound]_vars

(***************************************************************************)
(* Properties of the ErrorCode conversions                                 *)
(***************************************************************************)
\* C2: from_integer maps every integer of the server-error band
\* -32099 .. -32000, both ends included, to ServerError(n), and every integer
\* that is neither in the band nor a named code to ApplicationError(n).
C2_FromIntegerBands ==
  pc = "from" =>
    /\ (input.n >= -32099 /\ input.n <= -32000) => wire.c = ServerError(input.n)
    /\ (~(input.n >= -32099 /\ input.n <= -32000)
          /\ input.n \notin {-32700, -32600, -32601, -32602, -32603})
         => wire.c = ApplicationError(input.n)

\* C3: from_integer(to_integer(c)) = c for the five named codes, for
\* ServerError(n) with n in the band and for ApplicationError(n) with every
\* other n that is not a named code.
C3_FromToInverse ==
  pc = "to_from" => out.c = input.c

\* C4: from_integer returns exactly one variant for every integer,
\* to_integer(from_integer(n)) = n, and the five named integers map to
\* their named codes.
C4_FromIntegerTotal ==
  /\ pc = "from" =>
       /\ \/ wire.c \in NamedCodes
          \/ wire.c = ServerError(input.n)
          \/ wire.c = ApplicationError(input.n)
       /\ input.n = -32700 => wire.c = ParseError
       /\ input.n = -32600 => wire.c = InvalidRequest
       /\ input.n = -32601 => wire.c = MethodNotFound
       /\ input.n = -32602 => wire.c = InvalidParams
       /\ input.n = -32603 => wire.c = InternalError
  /\ pc = "from_to" => out.n = input.n

C4_Witness ==
  /\ pc = "from_to"
  /\ input.n = -32603
  /\ wire.c = InternalError
  /\ out.n = -32603


(***************************************************************************)
(* Round trip                                                              *)
(***************************************************************************)
\* C1: for every valid Request, Notification and Response value v,
\* a Response with an error payload of any code and any data included,
\* decoding the encoding of v succeeds and yields v field by field.
C1_RoundTrip ==
  pc = "deserialized" => out.ok /\ out.val = input.val

(***************************************************************************)
(* The shapes the decoders accept, stated on the payload                   *)
(***************************************************************************)
NoDuplicateKeys(pairs) ==
  \A i, j \in 1..Len(pairs) : pairs[i].k = pairs[j].k => i = j

ValueOfKey(pairs, key) == pairs[CHOOSE i \in 1..Len(pairs) : pairs[i].k = key].v

IsIdentifier(v) == v.t \in {"int", "float", "str", "null"}

IsErrorObject(v) ==
  /\ v.t = "obj"
  /\ KeysOf(v.v) \subseteq {"code", "message", "data"}
  /\ NoDuplicateKeys(v.v)
  /\ HasKey(v.v, "code") /\ ValueOfKey(v.v, "code").t = "int"
  /\ HasKey(v.v, "message") /\ ValueOfKey(v.v, "message").t = "str"

\* the pair is one the decoder of `kind` takes, whatever else the payload holds
AcceptedPair(kind, p) ==
  \/ p.k = "jsonrpc" /\ p.v = JStr("2.0")
  \/ kind # "Response" /\ p.k = "method" /\ p.v.t = "str"
  \/ kind # "Response" /\ p.k = "params"
  \/ kind # "Notification" /\ p.k = "id" /\ IsIdentifier(p.v)
  \/ kind = "Response" /\ p.k = "result"
  \/ kind = "Response" /\ p.k = "error" /\ IsErrorObject(p.v)

\* every pair is taken: no unknown, duplicate, forbidden or ill-typed key,
\* and not both of result and error
KeysAccepted(kind, pairs) ==
  /\ NoDuplicateKeys(pairs)
  /\ \A i \in 1..Len(pairs) : AcceptedPair(kind, pairs[i])
  /\ ~(HasKey(pairs, "result") /\ HasKey(pairs, "error"))

DeserializeAs(variant, value) ==
  CASE variant = "Notification" -> NotificationDeserialize(value)
    [] variant = "Request" -> RequestDeserialize(value)
    [] variant = "Response" -> ResponseDeserialize(value)
    [] variant = "BatchRequest" -> VecRequestDeserialize(value)

VariantOrder == <<"Notification", "Request", "Response", "BatchRequest">>

Variants == {VariantOrder[i] : i \in 1..Len(VariantOrder)}

(***************************************************************************)
(* Properties of Message decode                                            *)
(***************************************************************************)
\* C5: Message decode tries Notification, Request, Response and the sequence
\* of Request in this order on the parsed payload and returns the variant of
\* the first attempt that succeeds; when all four fail it returns the one
\* aggregate error and no Message.
C5_TrialOrder ==
  pc = "Message" =>
    /\ wire = ValueDeserialize(input)
    /\ Len(tried) \in 1..Len(VariantOrder)
    /\ tried = SubSeq(VariantOrder, 1, Len(tried))
    /\ \A i \in 1..(Len(tried) - 1) : ~DeserializeAs(tried[i], wire).ok
    /\ out.ok =>
         /\ DeserializeAs(tried[Len(tried)], wire).ok
         /\ out.val = MessageOf(tried[Len(tried)],
                                DeserializeAs(tried[Len(tried)], wire).val)
    /\ ~out.ok =>
         /\ tried = VariantOrder
         /\ \A v \in Variants : ~DeserializeAs(v, wire).ok
         /\ out = Err("data did not match any variant of Message", "")

C5_Witness ==
  /\ pc = "Message"
  /\ out.ok
  /\ out.val.variant = "Response"
  /\ tried = <<"Notification", "Request", "Response">>

\* C6: at most one of the Notification, Request, Response and batch decoders
\* succeeds on a payload, as written and as parsed, so the variant Message
\* decode resolves is the only one that decodes.
C6_ShapeExclusive ==
  /\ Cardinality({v \in Variants : DeserializeAs(v, input).ok}) <= 1
  /\ pc = "Message" =>
       {v \in Variants : DeserializeAs(v, wire).ok}
         = IF out.ok THEN {out.val.variant} ELSE {}

C6_Witness ==
  /\ pc = "Message"
  /\ input.t = "obj"
  /\ KeysOf(input.v) = {"jsonrpc", "method", "params", "id"}
  /\ out.ok
  /\ out.val.variant = "Request"

(***************************************************************************)
(* Properties of the Notification, Request and Response decoders           *)
(***************************************************************************)
\* C7: Notification decode succeeds exactly on an object whose keys are a
\* duplicate-free subset of {jsonrpc, method, params} with jsonrpc "2.0"
\* and a string method; a payload with an id key is rejected whatever else
\* it holds; the decoded params is absent exactly when the key was absent.
C7_NotificationDecode ==
  pc = "Notification" =>
    /\ out.ok <=> /\ input.t = "obj"
                  /\ KeysAccepted("Notification", input.v)
                  /\ HasKey(input.v, "jsonrpc")
                  /\ HasKey(input.v, "method")
    /\ (input.t = "obj" /\ HasKey(input.v, "id")) => ~out.ok
    /\ out.ok =>
         /\ out.val.method = ValueOfKey(input.v, "method").v
         /\ out.val.params.some <=> HasKey(input.v, "params")
         /\ out.val.params.some => out.val.params.val = ValueOfKey(input.v, "params")

C7_Witness ==
  /\ pc = "Notification"
  /\ out.ok
  /\ HasKey(input.v, "params")
  /\ out.val.params = Some(JNull)

\* C8: Request decode succeeds exactly on an object whose keys are a
\* duplicate-free subset of {jsonrpc, method, params, id} with jsonrpc
\* "2.0", a string method and an id that is a valid Identifier; a payload
\* without an id key is rejected.
C8_RequestDecode ==
  pc = "Request" =>
    /\ out.ok <=> /\ input.t = "obj"
                  /\ KeysAccepted("Request", input.v)
                  /\ HasKey(input.v, "jsonrpc")
                  /\ HasKey(input.v, "method")
                  /\ HasKey(input.v, "id")
    /\ (input.t = "obj" /\ ~HasKey(input.v, "id")) => ~out.ok
    /\ out.ok =>
         /\ out.val.method = ValueOfKey(input.v, "method").v
         /\ out.val.id = RequestIdDeserialize(ValueOfKey(input.v, "id")).val

C8_Witness ==
  /\ pc = "Request"
  /\ out.ok
  /\ KeysOf(input.v) = {"jsonrpc", "method", "params", "id"}
  /\ out.val.id = IdNumber(JInt(1))

\* C9: Response decode rejects a payload with both a result and an error
\* key, in either order, and a payload with neither; a decoded Response
\* holds Ok(value) exactly when the payload had result and Err(payload)
\* exactly when it had error.
C9_ResponseOneOutcome ==
  (pc = "Response" /\ input.t = "obj") =>
    /\ (HasKey(input.v, "result") /\ HasKey(input.v, "error")) => ~out.ok
    /\ (~HasKey(input.v, "result") /\ ~HasKey(input.v, "error")) => ~out.ok
    /\ out.ok =>
         /\ out.val.result.tag \in {"Ok", "Err"}
         /\ out.val.result.tag = "Ok" <=> HasKey(input.v, "result")
         /\ out.val.result.tag = "Err" <=> HasKey(input.v, "error")
         /\ out.val.result.tag = "Ok" =>
              out.val.result.val = ValueOfKey(input.v, "result")
         /\ out.val.result.tag = "Err" =>
              out.val.result.val
                = ResponseErrorDeserialize(ValueOfKey(input.v, "error")).val
         /\ (HasKey(input.v, "error") /\ ValueOfKey(input.v, "error") = ErrorObject) =>
              out.val.result.val
                = [code |-> MethodNotFound, message |-> "Method not found",
                   data |-> None]
         /\ (HasKey(input.v, "error")
               /\ ValueOfKey(input.v, "error") = ErrorObjectWithData) =>
              out.val.result.val
                = [code |-> InvalidParams, message |-> "Invalid params",
                   data |-> Some(JObj(<<KV("extra", JStr("id"))>>))]

\* the payload has result after error and nothing else wrong
C9_Witness ==
  /\ pc = "Response"
  /\ input = JObj(<<KV("jsonrpc", JStr("2.0")), KV("id", JInt(1)),
                    KV("result", JInt(19)), KV("error", ErrorObject)>>)
  /\ out = Err("cannot have both result and error fields", "")

\* the first pair of the payload with the key
FirstIndexOf(pairs, key) ==
  CHOOSE i \in 1..Len(pairs) :
    /\ pairs[i].k = key
    /\ \A j \in 1..(i - 1) : pairs[j].k # key

DecoderStates == {"Notification", "Request", "Response"}

\* C10 as stated: the version decodes exactly when it is the string "2.0";
\* in Notification, Request and Response decode an absent jsonrpc key fails
\* with the missing-field error and a present but different string with the
\* invalid-version error.
C10_VersionErrorsAlways ==
  (pc \in DecoderStates /\ input.t = "obj") =>
    /\ \A i \in 1..Len(input.v) :
         input.v[i].k = "jsonrpc" =>
           (JsonRpcVersionDeserialize(input.v[i].v).ok <=> input.v[i].v = JStr("2.0"))
    /\ ~HasKey(input.v, "jsonrpc") => out = Err("missing_field", "jsonrpc")
    /\ (/\ HasKey(input.v, "jsonrpc")
        /\ \A i \in 1..Len(input.v) :
             input.v[i].k = "jsonrpc" =>
               (input.v[i].v.t = "str" /\ input.v[i].v # JStr("2.0")))
         => (~out.ok /\ out.kind = "invalid JSON-RPC version")

\* C10, amended: the version decodes exactly when it is the string "2.0".
\* A payload without a jsonrpc key always fails, with the missing-field
\* error of jsonrpc when every key it holds is accepted; a payload whose
\* jsonrpc is another string always fails, with the invalid-version error
\* when every key before its first jsonrpc is accepted. The two errors
\* differ.
C10_VersionErrors ==
  (pc \in DecoderStates /\ input.t = "obj") =>
    /\ \A i \in 1..Len(input.v) :
         input.v[i].k = "jsonrpc" =>
           (JsonRpcVersionDeserialize(input.v[i].v).ok <=> input.v[i].v = JStr("2.0"))
    /\ out.ok =>
         /\ HasKey(input.v, "jsonrpc")
         /\ ValueOfKey(input.v, "jsonrpc") = JStr("2.0")
    /\ ~HasKey(input.v, "jsonrpc") =>
         /\ ~out.ok
         /\ KeysAccepted(pc, input.v) => out = Err("missing_field", "jsonrpc")
    /\ \A i \in 1..Len(input.v) :
         (/\ input.v[i].k = "jsonrpc"
          /\ input.v[i].v.t = "str"
          /\ input.v[i].v # JStr("2.0")) =>
           /\ ~out.ok
           /\ (/\ i = FirstIndexOf(input.v, "jsonrpc")
               /\ KeysAccepted(pc, SubSeq(input.v, 1, i - 1)))
                => /\ out = Err("invalid JSON-RPC version", input.v[i].v.v)
                   /\ out # Err("missing_field", "jsonrpc")

\* a wrong version after two accepted keys
C10_Witness ==
  /\ pc = "Request"
  /\ input = JObj(<<KV("method", JStr("subtract")), KV("id", JInt(1)),
                    KV("jsonrpc", JStr("1.0"))>>)
  /\ out = Err("invalid JSON-RPC version", "1.0")

(***************************************************************************)
(* RequestId, decoded and encoded                                          *)
(***************************************************************************)
\* the largest magnitude of a number used as an id
MaxIdNumber == 10

IdTexts == {"abc", "1", "", "null", "true", "2.0"}

\* the JSON documents an id is decoded from
IdDocuments ==
  {JInt(n) : n \in (0 - MaxIdNumber)..MaxIdNumber}
    \cup {JFloat(n) : n \in (0 - MaxIdNumber)..MaxIdNumber}
    \cup {JStr(s) : s \in IdTexts}
    \cup {JNull, JBool(TRUE), JBool(FALSE), JArr(<<>>),
          JArr(<<JInt(1), JInt(2), JInt(3)>>), JObj(<<KV("id", JInt(1))>>)}

AllRequestIds ==
  {IdNumber(JInt(n)) : n \in (0 - MaxIdNumber)..MaxIdNumber}
    \cup {IdNumber(JFloat(n)) : n \in (0 - MaxIdNumber)..MaxIdNumber}
    \cup {IdString(s) : s \in IdTexts}
    \cup {IdNull}

InitId ==
  /\ input \in {Typed("json", j) : j \in IdDocuments}
                 \cup {Typed("RequestId", id) : id \in AllRequestIds}
  /\ wire = Nil
  /\ out = Nil
  /\ tried = <<>>
  /\ pc = "start"

\* serde_json::from_value::<RequestId>(input)
DecodeId ==
  /\ pc = "start"
  /\ input.kind = "json"
  /\ out' = RequestIdDeserialize(input.val)
  /\ pc' = "id_decoded"
  /\ UNCHANGED <<input, wire, tried>>

\* serde_json::to_value(id) of the id just decoded
EncodeIdBack ==
  /\ pc = "id_decoded"
  /\ out.ok
  /\ wire' = RequestIdSerialize(out.val)
  /\ pc' = "id_reencoded"
  /\ UNCHANGED <<input, out, tried>>

\* serde_json::to_value(input)
EncodeId ==
  /\ pc = "start"
  /\ input.kind = "RequestId"
  /\ wire' = RequestIdSerialize(input.val)
  /\ pc' = "id_encoded"
  /\ UNCHANGED <<input, out, tried>>

\* serde_json::from_value::<RequestId>(wire) of the id just encoded
DecodeIdBack ==
  /\ pc = "id_encoded"
  /\ out' = RequestIdDeserialize(wire)
  /\ pc' = "id_redecoded"
  /\ UNCHANGED <<input, wire, tried>>

NextId == DecodeId \/ EncodeIdBack \/ EncodeId \/ DecodeIdBack

SpecId == InitId /\ [][NextId]_vars

\* C11: Identifier decode accepts exactly integers, floating-point numbers,
\* strings and null, as Number, Number, String and Null, and rejects arrays,
\* objects and booleans; encode is its inverse; a string never decodes as a
\* Number nor a number as a String, so String("1") and Number(1) stay
\* distinct through decode(encode(.)).
C11_IdentifierCodec ==
  /\ pc = "id_decoded" =>
       /\ out.ok <=> input.val.t \in {"int", "float", "str", "null"}
       /\ input.val.t \in {"arr", "obj", "bool"} => ~out.ok
       /\ input.val.t \in {"int", "float"} =>
            (out.val.tag = "Number" /\ out.val.val = input.val)
       /\ input.val.t = "str" =>
            (out.val.tag = "String" /\ out.val.val = input.val)
       /\ input.val.t = "null" => out.val = IdNull
  /\ pc = "id_reencoded" => wire = input.val
  /\ pc = "id_encoded" =>
       /\ input.val.tag = "Number" => (wire.t \in {"int", "float"} /\ wire = input.val.val)
       /\ input.val.tag = "String" => (wire.t = "str" /\ wire = input.val.val)
       /\ input.val.tag = "Null" => wire = JNull
  /\ pc = "id_redecoded" =>
       /\ out = Ok(input.val)
       /\ out.val.tag = input.val.tag

C11_Witness ==
  /\ pc = "id_redecoded"
  /\ input.val = IdString("1")
  /\ wire = JStr("1")
  /\ out.val = IdString("1")
  /\ out.val # IdNumber(JInt(1))

(***************************************************************************)
(* Arrays of payloads through Message decode and encode                    *)
(***************************************************************************)
\* the elements an array payload holds: Requests in several shapes, and
\* elements that are no Request
BatchItems ==
  {RequestObject(JInt(1)), RequestObject(JInt(2)), RequestObject(JStr("1")),
   JObj(<<KV("jsonrpc", JStr("2.0")), KV("method", JStr("update")), KV("id", JNull)>>),
   JObj(<<KV("id", JInt(3)), KV("method", JStr("update")), KV("jsonrpc", JStr("2.0"))>>),
   JObj(<<KV("jsonrpc", JStr("2.0")), KV("method", JStr("update"))>>),
   JObj(<<KV("jsonrpc", JStr("2.0")), KV("result", JInt(19)), KV("id", JInt(1))>>),
   JObj(<<KV("jsonrpc", JStr("1.0")), KV("method", JStr("update")), KV("id", JInt(1))>>),
   JObj(<<KV("jsonrpc", JStr("2.0")), KV("method", JStr("update")),
          KV("method", JStr("subtract")), KV("id", JInt(1))>>),
   JInt(1),
   JArr(<<>>)}

BatchPayloads == {JArr(s) : s \in UNION {[1..n -> BatchItems] : n \in 0..MaxBatch}}

InitBatch == InitPayload(BatchPayloads)

\* serde_json::to_string(&message) of the Message just decoded
EncodeMessage ==
  /\ pc = "Message"
  /\ out.ok
  /\ wire' = MessageSerialize(out.val)
  /\ pc' = "Reencoded"
  /\ UNCHANGED <<input, out, tried>>

NextBatch ==
  DecodeNotification \/ DecodeRequest \/ DecodeResponse \/ DecodeMessage \/ EncodeMessage

SpecBatch == InitBatch /\ [][NextBatch]_vars

\* every element of the array payload decodes as a Request
AllRequests(d) == d.t = "arr" /\ \A j \in 1..Len(d.v) : RequestDeserialize(d.v[j]).ok

\* C12: an array of valid Request objects decodes through Message decode to
\* a BatchRequest holding as many Requests in the same order, and a
\* BatchRequest encodes to an array of its encoded Requests in that order.
C12_BatchOrder ==
  /\ (pc \in {"Message", "Reencoded"} /\ AllRequests(input)) =>
       /\ out.ok
       /\ out.val.variant = "BatchRequest"
       /\ Len(out.val.val) = Len(input.v)
       /\ \A j \in 1..Len(input.v) : out.val.val[j] = RequestDeserialize(input.v[j]).val
  /\ (pc = "Reencoded" /\ out.val.variant = "BatchRequest") =>
       /\ wire.t = "arr"
       /\ Len(wire.v) = Len(out.val.val)
       /\ \A j \in 1..Len(wire.v) :
            /\ wire.v[j] = RequestSerialize(out.val.val[j])
            /\ RequestDeserialize(wire.v[j]) = Ok(out.val.val[j])

C12_Witness ==
  /\ pc = "Reencoded"
  /\ AllRequests(input)
  /\ Len(input.v) = 2
  /\ input.v[1] # input.v[2]
  /\ out.val.variant = "BatchRequest"
  /\ wire = input

\* C13: Notification and Request encode emit the params key exactly when
\* params is present, never a null for an absent params; Notification encode
\* never emits an id key; Request encode always emits jsonrpc "2.0", method
\* and id.
C13_EncodeKeys ==
  (pc = "serialized" /\ input.kind \in {"Notification", "Request"}) =>
    /\ wire.t = "obj"
    /\ NoDuplicateKeys(wire.v)
    /\ HasKey(wire.v, "params") <=> input.val.params.some
    /\ input.val.params.some => ValueOfKey(wire.v, "params") = input.val.params.val
    /\ HasKey(wire.v, "jsonrpc") /\ ValueOfKey(wire.v, "jsonrpc") = JStr("2.0")
    /\ HasKey(wire.v, "method") /\ ValueOfKey(wire.v, "method") = JStr(input.val.method)
    /\ input.kind = "Notification" =>
         /\ ~HasKey(wire.v, "id")
         /\ KeysOf(wire.v) \subseteq {"jsonrpc", "method", "params"}
    /\ input.kind = "Request" =>
         /\ HasKey(wire.v, "id")
         /\ ValueOfKey(wire.v, "id") = RequestIdSerialize(input.val.id)
         /\ KeysOf(wire.v) \subseteq {"jsonrpc", "method", "params", "id"}

C13_Witness ==
  /\ pc = "serialized"
  /\ input.kind = "Request"
  /\ ~input.val.params.some
  /\ KeysOf(wire.v) = {"jsonrpc", "method", "id"}

\* C14: Response encode emits jsonrpc, id and exactly one of result and
\* error; an encoded error object always holds code, message and data, the
\* data being null when the payload has none.
C14_ResponseEncode ==
  (pc = "serialized" /\ input.kind = "Response") =>
    /\ wire.t = "obj"
    /\ NoDuplicateKeys(wire.v)
    /\ HasKey(wire.v, "jsonrpc") /\ ValueOfKey(wire.v, "jsonrpc") = JStr("2.0")
    /\ HasKey(wire.v, "id") /\ ValueOfKey(wire.v, "id") = RequestIdSerialize(input.val.id)
    /\ HasKey(wire.v, "result") # HasKey(wire.v, "error")
    /\ HasKey(wire.v, "result") <=> input.val.result.tag = "Ok"
    /\ KeysOf(wire.v) \subseteq {"jsonrpc", "id", "result", "error"}
    /\ HasKey(wire.v, "result") => ValueOfKey(wire.v, "result") = input.val.result.val
    /\ HasKey(wire.v, "error") =>
         LET e == ValueOfKey(wire.v, "error")
             payload == input.val.result.val
         IN /\ e.t = "obj"
            /\ NoDuplicateKeys(e.v)
            /\ KeysOf(e.v) = {"code", "message", "data"}
            /\ ValueOfKey(e.v, "code") = JInt(I64FromErrorCode(payload.code))
            /\ ValueOfKey(e.v, "message") = JStr(payload.message)
            /\ ValueOfKey(e.v, "data") =
                 (IF payload.data.some THEN payload.data.val ELSE JNull)

C14_Witness ==
  /\ pc = "serialized"
  /\ input.kind = "Response"
  /\ input.val.result.tag = "Err"
  /\ ~input.val.result.val.data.some
  /\ HasKey(wire.v, "error")
  /\ ValueOfKey(ValueOfKey(wire.v, "error").v, "data") = JNull

(***************************************************************************)
(* The error payload decoder applied to a payload                          *)
(***************************************************************************)
ErrorPairs ==
  {KV("code", JInt(MethodNotFoundCode)), KV("code", JInt(ServerErrorUpper)),
   KV("code", JInt(7)), KV("code", JStr("7")),
   KV("message", JStr("Method not found")), KV("message", JInt(1)),
   KV("data", JNull), KV("data", JInt(1)),
   KV("data", JObj(<<KV("extra", JStr("id")), KV("id", JNull)>>)),
   KV("extra", JInt(1))}

\* serde_json::from_str::<ResponseError>(input)
DecodeResponseError ==
  /\ pc = "start"
  /\ out' = ResponseErrorDeserialize(input)
  /\ pc' = "ResponseError"
  /\ UNCHANGED <<input, wire, tried>>

InitError == InitPayload(Objects(ErrorPairs) \cup NonObjects)
NextError == DecodeResponseError
SpecError == InitError /\ [][NextError]_vars

\* C15: ErrorPayload decode requires code, an integer converted by
\* from_integer, and message, a string; it rejects unknown and duplicate
\* keys; data is absent when the key is missing or its value is null, and a
\* non-null data is kept unchanged.
C15_ErrorPayloadDecode ==
  pc = "ResponseError" =>
    /\ input.t # "obj" => ~out.ok
    /\ input.t = "obj" =>
         LET p == input.v
         IN /\ out.ok <=>
                 /\ HasKey(p, "code") /\ ValueOfKey(p, "code").t = "int"
                 /\ HasKey(p, "message") /\ ValueOfKey(p, "message").t = "str"
                 /\ KeysOf(p) \subseteq {"code", "message", "data"}
                 /\ NoDuplicateKeys(p)
            /\ out.ok =>
                 /\ out.val.code = ErrorCodeFromI64(ValueOfKey(p, "code").v)
                 /\ out.val.message = ValueOfKey(p, "message").v
                 /\ ~HasKey(p, "data") => out.val.data = None
                 /\ HasKey(p, "data") =>
                      out.val.data = (IF ValueOfKey(p, "data") = JNull
                                        THEN None ELSE Some(ValueOfKey(p, "data")))

C15_Witness ==
  /\ pc = "ResponseError"
  /\ out.ok
  /\ HasKey(input.v, "data")
  /\ ValueOfKey(input.v, "data") = JNull
  /\ out.val.data = None
  /\ out.val.code = MethodNotFound

\* C16: a payload object that repeats a key is rejected on every decode
\* path: by Notification, Request and Response decode, and by Message
\* decode, where it never resolves to a Message variant.
C16_DuplicateKeysRejected ==
  (input.t = "obj" /\ ~NoDuplicateKeys(input.v)) =>
    /\ pc \in DecoderStates => ~out.ok
    /\ pc = "Message" => ~out.ok

(***************************************************************************)
(* Messages, encoded and decoded again                                     *)
(***************************************************************************)
\* the Requests a BatchRequest is built from
BatchRequests == [method : {"subtract"}, params : OptionValues, id : RequestIds]

\* Message::Notification, Message::Request and Message::Response
SingleMessages ==
  {MessageOf("Notification", n) : n \in Notifications}
    \cup {MessageOf("Request", r) : r \in Requests}
    \cup {MessageOf("Response", r) : r \in Responses}

\* Message::BatchRequest
BatchMessages ==
  {MessageOf("BatchRequest", b) :
     b \in UNION {[1..n -> BatchRequests] : n \in 0..MaxBatch}}

InitMessage ==
  /\ \/ input \in SingleMessages
     \/ input \in BatchMessages
  /\ wire = Nil
  /\ out = Nil
  /\ tried = <<>>
  /\ pc = "start"

\* serde_json::to_string(&message)
SerializeMessage ==
  /\ pc = "start"
  /\ wire' = MessageSerialize(input)
  /\ pc' = "sent"
  /\ UNCHANGED <<input, out, tried>>

\* serde_json::from_str::<Message>(&wire)
DeserializeMessage ==
  /\ pc = "sent"
  /\ LET r == MessageDeserialize(wire)
     IN /\ tried' = r.tried
        /\ out' = r.result
  /\ pc' = "received"
  /\ UNCHANGED <<input, wire>>

NextMessage == SerializeMessage \/ DeserializeMessage

SpecMessage == InitMessage /\ [][NextMessage]_vars

\* C17: for every Message, a BatchRequest of any length included, decoding
\* its encoding through Message decode succeeds with the variant the Message
\* has.
C17_VariantPreserved ==
  pc = "received" =>
    /\ out.ok
    /\ out.val.variant = input.variant
    /\ input.variant = "BatchRequest" => Len(out.val.val) = Len(input.val)

C17_Witness ==
  /\ pc = "received"
  /\ input.variant = "Notification"
  /\ input.val.params = Some(JNull)
  /\ out.ok
  /\ out.val.variant = "Notification"

\* C18: batch decode is all-or-nothing: when any element of an array payload
\* fails Request decode, Message decode fails with the error for a payload
\* that matches no variant, and gives no BatchRequest of the other elements.
C18_BatchAllOrNothing ==
  (pc = "Message" /\ input.t = "arr" /\ ~AllRequests(input)) =>
    out = Err("data did not match any variant of Message", "")

\* C19: the empty JSON array fails Notification, Request and Response
\* decode, and Message decode, after those three attempts, accepts it as a
\* BatchRequest of zero Requests, which encodes back to the empty array.
C19_EmptyBatch ==
  input = JArr(<<>>) =>
    /\ pc \in DecoderStates => ~out.ok
    /\ pc \in {"Message", "Reencoded"} =>
         /\ out.ok
         /\ out.val.variant = "BatchRequest"
         /\ out.val.val = <<>>
         /\ tried = VariantOrder
    /\ pc = "Reencoded" => wire = JArr(<<>>)

C19_Witness ==
  /\ input = JArr(<<>>)
  /\ pc = "Reencoded"
  /\ out.val.variant = "BatchRequest"
  /\ Len(out.val.val) = 0
  /\ wire = JArr(<<>>)

\* the keys of each schema
SchemaKeys(kind) ==
  CASE kind = "Notification" -> {"jsonrpc", "method", "params"}
    [] kind = "Request" -> {"jsonrpc", "method", "params", "id"}
    [] kind = "Response" -> {"jsonrpc", "id", "result", "error"}

SeenBefore(pairs, i, key) == \E j \in 1..(i - 1) : pairs[j].k = key

\* the decode of the value of a key
KeyValueDecode(key, value) ==
  CASE key = "jsonrpc" -> JsonRpcVersionDeserialize(value)
    [] key = "method" -> StringDeserialize(value)
    [] key = "id" -> RequestIdDeserialize(value)
    [] key = "error" -> ResponseErrorDeserialize(value)
    [] OTHER -> Ok(value)

\* the error pair i raises when the pairs before it were accepted, if any
KeyFault(kind, pairs, i) ==
  LET key == pairs[i].k
  IN IF kind = "Notification" /\ key = "id"
       THEN Err("notifications must not include an id", "id")
     ELSE IF key \notin SchemaKeys(kind) THEN Err("unknown_field", key)
     ELSE IF SeenBefore(pairs, i, key) THEN Err("duplicate_field", key)
     ELSE IF /\ key \in {"result", "error"}
             /\ (SeenBefore(pairs, i, "result") \/ SeenBefore(pairs, i, "error"))
       THEN Err("cannot have both result and error fields", "")
     ELSE LET r == KeyValueDecode(key, pairs[i].v)
          IN IF r.ok THEN Ok("accepted") ELSE r

OffendingKeys(kind, pairs) == {i \in 1..Len(pairs) : ~KeyFault(kind, pairs, i).ok}

FirstOffending(kind, pairs) ==
  CHOOSE i \in OffendingKeys(kind, pairs) : \A j \in OffendingKeys(kind, pairs) : i <= j

\* the missing-field error of a payload, by the priority of each schema
MissingFault(kind, pairs) ==
  IF ~HasKey(pairs, "jsonrpc") THEN Err("missing_field", "jsonrpc")
  ELSE IF kind # "Response" /\ ~HasKey(pairs, "method") THEN Err("missing_field", "method")
  ELSE IF kind # "Notification" /\ ~HasKey(pairs, "id") THEN Err("missing_field", "id")
  ELSE IF kind = "Response" /\ ~HasKey(pairs, "result") /\ ~HasKey(pairs, "error")
    THEN Err("missing both result and error fields", "")
  ELSE Ok("accepted")

\* C20: the error of a decode follows the order of the keys: decode stops at
\* the first offending key (unknown, repeated, an id on a Notification, an
\* invalid jsonrpc, the second of result and error, a value of the wrong
\* shape) with that key's error, whatever follows it; a missing-field error
\* is given only when every key was accepted, jsonrpc before method before
\* id, and for a Response jsonrpc before id before the missing result and
\* error.
C20_ErrorPrecedence ==
  (pc \in DecoderStates /\ input.t = "obj") =>
    IF OffendingKeys(pc, input.v) # {}
      THEN ~out.ok /\ out = KeyFault(pc, input.v, FirstOffending(pc, input.v))
    ELSE IF ~MissingFault(pc, input.v).ok
      THEN ~out.ok /\ out = MissingFault(pc, input.v)
    ELSE out.ok

C20_Witness ==
  /\ pc = "Response"
  /\ input.t = "obj"
  /\ Cardinality(OffendingKeys(pc, input.v)) >= 2
  /\ \E i \in OffendingKeys(pc, input.v) :
       KeyFault(pc, input.v, i).kind # KeyFault(pc, input.v, FirstOffending(pc, input.v)).kind
  /\ ~MissingFault(pc, input.v).ok
  /\ ~out.ok
  /\ out.kind = "cannot have both result and error fields"

(***************************************************************************)
(* Keys holding null, through the three object decoders                    *)
(***************************************************************************)
PresencePairs ==
  {KV("jsonrpc", JStr("2.0")),
   KV("method", JStr("subtract")),
   KV("params", JNull), KV("params", JArr(<<JInt(42), JInt(23)>>)),
   KV("id", JInt(1)), KV("id", JNull),
   KV("result", JNull), KV("result", JInt(19)),
   KV("error", ErrorObject)}

InitPresence == InitPayload(Objects(PresencePairs) \cup NonObjects)
NextPresence == DecodeNotification \/ DecodeRequest \/ DecodeResponse
SpecPresence == InitPresence /\ [][NextPresence]_vars

\* the keys a schema requires, result and error apart
RequiredKeys(kind) ==
  CASE kind = "Notification" -> {"jsonrpc", "method"}
    [] kind = "Request" -> {"jsonrpc", "method", "id"}
    [] kind = "Response" -> {"jsonrpc", "id"}

\* C21: outside the data of an error payload, presence is judged by the
\* key and not by its value: a Response whose result key holds null decodes
\* to Ok(null) and never fails as missing both result and error, and a
\* Notification or Request whose params key holds null decodes with params
\* present and null, not absent.
C21_PresenceByKey ==
  (pc \in DecoderStates /\ input.t = "obj") =>
    LET p == input.v
        complete == KeysAccepted(pc, p) /\ RequiredKeys(pc) \subseteq KeysOf(p)
    IN /\ (pc = "Response" /\ HasKey(p, "result")) =>
            /\ complete => out.ok
            /\ out.ok => out.val.result = ResultOk(ValueOfKey(p, "result"))
            /\ ~out.ok => out.kind # "missing both result and error fields"
       /\ (pc \in {"Notification", "Request"} /\ HasKey(p, "params")) =>
            /\ complete => out.ok
            /\ out.ok => out.val.params = Some(ValueOfKey(p, "params"))
       /\ (pc \in {"Notification", "Request"} /\ ~HasKey(p, "params") /\ out.ok) =>
            out.val.params = None

C21_Witness ==
  /\ pc = "Response"
  /\ input.t = "obj"
  /\ HasKey(input.v, "result")
  /\ ValueOfKey(input.v, "result") = JNull
  /\ out.ok
  /\ out.val.result = ResultOk(JNull)

====
